---- MODULE Spec2Model ----
(***************************************************************************)
(* Simulation display controller of the Scene component                    *)
(* (src/components/Scene.tsx): the registry of simulation results, the     *)
(* current simulation type, the asynchronous load of a model's results     *)
(* and the cycle / switch intents.                                         *)
(***************************************************************************)
EXTENDS Integers, Sequences, FiniteSets, TLC

\* ------------------------------------------------------------------ bounds

\* Largest number of files a simulation type folder lists.
MaxFiles == 3
\* Number of model changes (loads) in one behaviour.
MaxLoads == 2
\* Largest number of files per type when loads overlap.
MaxFilesOverlap == 2
\* Largest number of entries the storage lists for a folder.
MaxEntries == 2

\* ------------------------------------------------------- environment inputs

\* currentSimulationTypeRef starts as '' (falsy): no type selected.
Unset == ""
\* availableSimulationTypesRef.current[1] of an array shorter than 2.
Undefined == "undefined"

\* Folder names the storage can report as simulation types.
TypeNames == {"default", "pressure", "stress"}

\* What listSimulationTypes can resolve to: data (in storage order).
TypeListings ==
    { <<>>,
      <<"default">>,
      <<"pressure">>,
      <<"default", "pressure">>,
      <<"pressure", "default">>,
      <<"pressure", "stress">> }

\* Names the asset loader gives to transform roots.
RootNames == {"root", "__root__"}

\* container.meshes of a loaded file, by mesh name: a file without geometry,
\* a ParaView export, and a model of two parts.
Containers ==
    { <<"__root__">>,
      <<"__root__", "mesh0">>,
      <<"__root__", "hull", "deck">> }

\* LoadAssetContainerAsync either rejects (network error, 404, parse error)
\* or resolves to a container.
FetchOutcomes ==
    {[ok |-> FALSE, meshes |-> <<>>]} \cup {[ok |-> TRUE, meshes |-> c] : c \in Containers}

\* listFiles resolves to {data, error}: data null on error, else the files in
\* ascending name order (file k is the k-th name).
ListFilesUpTo(max) ==
    {[data |-> "null", files |-> <<>>]}
        \cup {[data |-> "list", files |-> [k \in 1..n |-> k]] : n \in 0..max}

ListFilesResults == ListFilesUpTo(MaxFiles)

\* listSimulationTypes resolves to {data, error}.
ListTypesOf(listings) ==
    {[data |-> "null", types |-> <<>>]}
        \cup {[data |-> "list", types |-> l] : l \in listings}

ListTypesResults == ListTypesOf(TypeListings)

\* ------------------------------------------------------------------- state

VARIABLES
    simulationResults,        \* simulationResultsRef: Map in insertion order
    currentSimulationType,    \* currentSimulationTypeRef
    availableSimulationTypes, \* availableSimulationTypesRef
    sceneMeshes,              \* scene.meshes added by loads (not disposed)
    enabled,                  \* meshes whose enabled flag is true
    load,                     \* the fetchSimulationResults calls, by number
    genCount,                 \* number of model changes so far
    mounted,                  \* the component is mounted
    lastOp,                   \* the operation handled last
    uiRefs,                   \* spatialUIRef and fullscreenUIRef are set
    xrExperience,             \* xrExperienceRef: how far its creation is
    inXRSession,              \* useState inXRSession
    deviceType,               \* useState deviceType
    spatialEnabled,           \* menuHolder.isEnabled()
    fullscreenVisible,        \* isVisible of the fullscreen UI's controls
    effectPending,            \* a render with changed state is scheduled
    detectedInSession,        \* a controller was detected since the session began
    menus,                    \* fullscreenUIRef and spacialUIRef: the two menus
    probe                     \* a call of a utility function and what it returned

\* The menus and the device state.
uiVars ==
    << uiRefs, xrExperience, inXRSession, deviceType, spatialEnabled,
       fullscreenVisible, effectPending, detectedInSession >>

vars ==
    << simulationResults, currentSimulationType, availableSimulationTypes,
       sceneMeshes, enabled, load, genCount, mounted, lastOp, uiVars,
       menus, probe >>

Range(s) == {s[i] : i \in 1..Len(s)}

\* A mesh object: created by load g for file f of type t, named n.
Mesh(g, t, f, n) == [g |-> g, t |-> t, f |-> f, n |-> n]

\* ------------------------------------------------------------ Map helpers

MapHas(reg, t) == \E i \in 1..Len(reg) : reg[i].type = t

MapGet(reg, t) == reg[CHOOSE i \in 1..Len(reg) : reg[i].type = t]

MapKeys(reg) == [i \in 1..Len(reg) |-> reg[i].type]

\* Map.set: an existing key keeps its position, a new key is appended.
MapSet(reg, e) ==
    IF MapHas(reg, e.type)
    THEN [i \in 1..Len(reg) |-> IF reg[i].type = e.type THEN e ELSE reg[i]]
    ELSE Append(reg, e)

MapUpdate(reg, t, e) ==
    [i \in 1..Len(reg) |-> IF reg[i].type = t THEN e ELSE reg[i]]

RegistryMeshes(reg) == UNION {Range(reg[i].meshes) : i \in 1..Len(reg)}

\* The controller's mutable state as one value: c.reg, c.cur, c.en.
Ctl(reg, cur, en) == [reg |-> reg, cur |-> cur, en |-> en]

\* simResult.meshes[i] with a 0-based index; absent when out of range.
HasMeshAt(r, i) == i >= 0 /\ i < Len(r.meshes)
MeshAt(r, i) == r.meshes[i + 1]

\* --------------------------------------------------------------- handlers

HideNothing(c) == c

\* hideAllSimulationResults: setEnabled(false) on every mesh of every result.
hideAllSimulationResults(c) ==
    [c EXCEPT !.en = c.en \ RegistryMeshes(c.reg)]

\* showCurrentSimulationResult
showCurrentSimulationResult(c) ==
    IF c.cur = Unset \/ ~MapHas(c.reg, c.cur)
    THEN c
    ELSE LET r == MapGet(c.reg, c.cur)
             h == hideAllSimulationResults(c)
         IN  IF HasMeshAt(r, r.currentIndex)
             THEN [h EXCEPT !.en = h.en \cup {MeshAt(r, r.currentIndex)}]
             ELSE h

SwitchResettingIndex(c, simulationType) ==
    IF ~MapHas(c.reg, simulationType)
    THEN c
    ELSE LET r == MapGet(c.reg, simulationType)
             h == hideAllSimulationResults(c)
         IN  showCurrentSimulationResult(
                 [h EXCEPT !.cur = simulationType,
                           !.reg = MapUpdate(h.reg, simulationType,
                                             [r EXCEPT !.currentIndex = 0])])

SwitchHidingFirst(c, simulationType) ==
    LET h == hideAllSimulationResults(c)
    IN  IF ~MapHas(c.reg, simulationType)
        THEN h
        ELSE showCurrentSimulationResult([h EXCEPT !.cur = simulationType])

\* switchSimulationType
switchSimulationType(c, simulationType) ==
    IF ~MapHas(c.reg, simulationType)
    THEN c
    ELSE showCurrentSimulationResult(
             [hideAllSimulationResults(c) EXCEPT !.cur = simulationType])

NextIndexNoWrap(i, n) == IF i + 1 < n THEN i + 1 ELSE i

NextIndexOffByOne(i, n) == (i + 1) % (n + 1)

\* (simResult.currentIndex + 1) % simResult.meshes.length
NextIndex(i, n) == (i + 1) % n

\* The body of cycleSimulationResults after its guard.
CycleCurrent(c) ==
    LET r  == MapGet(c.reg, c.cur)
        e1 == IF HasMeshAt(r, r.currentIndex)
              THEN c.en \ {MeshAt(r, r.currentIndex)}
              ELSE c.en
        j  == NextIndex(r.currentIndex, Len(r.meshes))
        r2 == [r EXCEPT !.currentIndex = j]
        e2 == IF HasMeshAt(r2, j) THEN e1 \cup {MeshAt(r2, j)} ELSE e1
    IN  [c EXCEPT !.reg = MapUpdate(c.reg, c.cur, r2), !.en = e2]

CycleFallingBackToFirst(c) ==
    IF c.cur # Unset /\ MapHas(c.reg, c.cur)
    THEN CycleCurrent(c)
    ELSE IF Len(c.reg) > 0
         THEN CycleCurrent([c EXCEPT !.cur = c.reg[1].type])
         ELSE c

\* cycleSimulationResults
cycleSimulationResults(c) ==
    IF c.cur = Unset \/ ~MapHas(c.reg, c.cur)
    THEN c
    ELSE CycleCurrent(c)

\* The T key handler of setupManualTriggerHandling.
manualTrigger(c, available) ==
    IF c.cur = "default"
    THEN switchSimulationType(
             c, IF Len(available) >= 2 THEN available[2] ELSE Undefined)
    ELSE switchSimulationType(c, "default")

\* Meshes clearPreviousModels keeps in its second pass, by name.
KeptOnClear(name) == name \in {"floor", "menuHolder", "ground"}

\* mesh.isDisposed(): dispose removes a mesh from the scene for good.
isDisposed(scene, m) == m \notin scene

DisposalsUnguarded(scene, reg) ==
    RegistryMeshes(reg) \cup {m \in scene : ~KeptOnClear(m.n)}

\* The meshes clearPreviousModels calls dispose on: the meshes of the
\* registry that are not disposed yet, then the meshes still in the scene
\* but the kept names.
Disposals(scene, reg) ==
    LET first  == {m \in RegistryMeshes(reg) : ~isDisposed(scene, m)}
        rest   == scene \ first
        second == {m \in rest : ~KeptOnClear(m.n) /\ ~isDisposed(rest, m)}
    IN  first \cup second

\* clearPreviousModels: the scene's meshes after it.
clearPreviousModels(scene, reg) == scene \ Disposals(scene, reg)

\* --------------------------------------------------------- menu controls

\* A name is the sequence of the parts an underscore separates: 'default' is
\* <<"default">>, 'simulation_type1' is <<"simulation", "type1">>. Two names
\* are the same string exactly when their parts are the same.
Segments(typeName) ==
    IF typeName = "simulation_type1"
    THEN <<"simulation", "type1">>
    ELSE <<typeName>>

SELECTED_COLOR == "#ed5aff"
DEFAULT_COLOR == "#333333"

\* A GUI control: its name, what it is, its background, the type name its
\* click handler holds, and the children of a container.
Control(name, kind, background, typeName, children) ==
    [name |-> name, kind |-> kind, background |-> background,
     typeName |-> typeName, children |-> children]

Container(name, children) == Control(name, "container", "", "", children)

\* control instanceof GUI.Container (a Button is a Rectangle, a Container).
IsContainer(control) == control.kind \in {"container", "button"}

\* What findControlByName returns: null, or the control it found.
NoControl == [found |-> FALSE]
Found(control) == [found |-> TRUE, control |-> control]

RECURSIVE FindFirstBranchOnly(_, _, _)
FindFirstBranchOnly(children, i, controlName) ==
    IF i > Len(children)
    THEN NoControl
    ELSE IF children[i].name = controlName
         THEN Found(children[i])
         ELSE IF IsContainer(children[i])
              THEN FindFirstBranchOnly(children[i].children, 1, controlName)
              ELSE FindFirstBranchOnly(children, i + 1, controlName)

\* The loop of findControlByName over the children, from the i-th on.
RECURSIVE FindFrom(_, _, _)
FindFrom(children, i, controlName) ==
    IF i > Len(children)
    THEN NoControl
    ELSE IF children[i].name = controlName
         THEN Found(children[i])
         ELSE LET found == IF IsContainer(children[i])
                           THEN FindFrom(children[i].children, 1, controlName)
                           ELSE NoControl
              IN  IF found.found
                  THEN found
                  ELSE FindFrom(children, i + 1, controlName)

\* findControlByName(menu, controlName); menu.ref is false for null.
findControlByName(menu, controlName) ==
    IF ~menu.ref THEN NoControl ELSE FindFrom(menu.children, 1, controlName)

\* The two menus, by the suffix of their button names.
MenuNames == {"fullscreen", "spacial"}

\* A menu: whether its ref is set, how far parseFromSnippetAsync is, and the
\* controls getChildren() returns.
NoMenu == [ref |-> FALSE, parse |-> "none", children |-> <<>>]

\* No utility call made.
NoProbe == [fn |-> "none"]

\* control instanceof GUI.Button
IsButton(control) == control.kind = "button"

\* new GUI.TextBlock(name); the header of the type buttons has no name.
NoName == <<>>
TextBlock(name) == Control(name, "text", "", "", <<>>)

\* The container of the type buttons in a menu.
SimContainerName == <<"simulationTypesContainer">>

\* `type_${typeName}_fullscreen` and `type_${typeName}_spacial`
ButtonName(typeName, suffix) == <<"type">> \o Segments(typeName) \o <<suffix>>

\* GUI.Button.CreateSimpleButton(name, typeName) with the background and the
\* click handler createSimulationTypeButtons gives it.
TypeButton(typeName, suffix, currentType) ==
    Control(ButtonName(typeName, suffix), "button",
            IF typeName = currentType THEN SELECTED_COLOR ELSE DEFAULT_COLOR,
            typeName,
            <<TextBlock(ButtonName(typeName, suffix) \o <<"button">>)>>)

ClearNothing(container) == container

\* container.clearControls()
clearControls(container) == [container EXCEPT !.children = <<>>]

\* container.addControl(control)
addControl(container, control) ==
    [container EXCEPT !.children = Append(@, control)]

\* The control findControlByName returns is an object of the tree: a change
\* of it is a change of the tree at the place FindFrom found it.
RECURSIVE ReplaceFrom(_, _, _, _)
ReplaceFrom(children, i, controlName, control) ==
    IF i > Len(children)
    THEN children
    ELSE IF children[i].name = controlName
         THEN [children EXCEPT ![i] = control]
         ELSE IF IsContainer(children[i])
                   /\ FindFrom(children[i].children, 1, controlName).found
              THEN [children EXCEPT ![i].children =
                        ReplaceFrom(@, 1, controlName, control)]
              ELSE ReplaceFrom(children, i + 1, controlName, control)

\* simulationTypes.forEach: one button per type, in the order of the list.
RECURSIVE AddTypeButtons(_, _, _, _)
AddTypeButtons(container, simulationTypes, suffix, currentType) ==
    IF simulationTypes = <<>>
    THEN container
    ELSE AddTypeButtons(
             addControl(container,
                        TypeButton(Head(simulationTypes), suffix, currentType)),
             Tail(simulationTypes), suffix, currentType)

\* What createSimulationTypeButtons does to one menu: nothing without the
\* container, else clear, header, buttons.
FillMenu(menu, suffix, simulationTypes, currentType) ==
    LET simContainer == findControlByName(menu, SimContainerName)
    IN  IF ~simContainer.found
        THEN menu
        ELSE [menu EXCEPT !.children =
                 ReplaceFrom(@, 1, SimContainerName,
                     AddTypeButtons(
                         addControl(clearControls(simContainer.control),
                                    TextBlock(NoName)),
                         simulationTypes, suffix, currentType))]

\* The simulationTypes argument: an array, or a missing one.
List(items) == [present |-> TRUE, items |-> items]
Missing == [present |-> FALSE, items |-> <<>>]

\* createSimulationTypeButtons(fullscreenUI, spacialUI, simulationTypes,
\* currentSimulationType, switchSimulationType): the two menus it leaves.
createSimulationTypeButtons(uis, simulationTypes, currentType) ==
    IF ~simulationTypes.present \/ Len(simulationTypes.items) = 0
    THEN uis
    ELSE [m \in MenuNames |->
              FillMenu(uis[m], m, simulationTypes.items, currentType)]

\* The loop of a button's click handler and of
\* updateSimulationTypeButtonHighlight over the children of the container:
\* selected[k] is the outcome of the comparison for the k-th child.
Recolour(container, selected) ==
    [container EXCEPT !.children =
        [k \in 1..Len(container.children) |->
            IF IsButton(container.children[k])
            THEN [container.children[k] EXCEPT !.background =
                     IF selected[k] THEN SELECTED_COLOR ELSE DEFAULT_COLOR]
            ELSE container.children[k]]]

\* The visuals part of the click handler of the button of typeName in menu
\* m: the buttons of that menu's container, compared by their full name.
ClickVisuals(uis, m, typeName) ==
    LET simContainer == findControlByName(uis[m], SimContainerName)
    IN  IF ~simContainer.found
        THEN uis
        ELSE [uis EXCEPT ![m].children =
                 ReplaceFrom(@, 1, SimContainerName,
                     Recolour(simContainer.control,
                         [k \in 1..Len(simContainer.control.children) |->
                             simContainer.control.children[k].name
                                 = ButtonName(typeName, m)]))]

\* buttonNameParts[1] === currentSimulationType, for a name of two parts or
\* more; a button of a shorter name keeps its background.
SecondPartIs(control, currentType) ==
    IF Len(control.name) >= 2
    THEN control.name[2] = currentType
    ELSE control.background = SELECTED_COLOR

\* What updateSimulationTypeButtonHighlight does to one menu.
HighlightMenu(menu, currentType) ==
    LET simContainer == findControlByName(menu, SimContainerName)
    IN  IF ~simContainer.found
        THEN menu
        ELSE [menu EXCEPT !.children =
                 ReplaceFrom(@, 1, SimContainerName,
                     Recolour(simContainer.control,
                         [k \in 1..Len(simContainer.control.children) |->
                             SecondPartIs(simContainer.control.children[k],
                                          currentType)]))]

\* updateSimulationTypeButtonHighlight(fullscreenUI, spacialUI,
\* currentSimulationType): the two menus it leaves.
updateSimulationTypeButtonHighlight(uis, currentType) ==
    [m \in MenuNames |-> HighlightMenu(uis[m], currentType)]

\* ------------------------------------------------------ storage listings

\* The name of a storage entry is the sequence of its characters.
includes(name, char) == \E i \in 1..Len(name) : name[i] = char

\* What supabase.storage.from(bucket).list(path) gives: {data, error: null},
\* {data: null, error}, or an exception.
StorageOk(data) == [kind |-> "ok", data |-> data]
StorageError == [kind |-> "error", data |-> <<>>]
StorageThrows == [kind |-> "throws", data |-> <<>>]

\* What a listing function settles to: fulfilled with {data, error}, data
\* being null or the list of items, error being null or the error caught.
Fulfilled(data, items, error) ==
    [state |-> "fulfilled", data |-> data, items |-> items, error |-> error]

CatchRethrowing(error) ==
    [state |-> "rejected", data |-> "null", items |-> <<>>, error |-> error]

\* catch (error) { return { data: null, error }; }
Catch(error) == Fulfilled("null", <<>>, error)

\* (item) => item.id !== '.' && !item.name.includes('.')
IsFolder(item) == item.id # "." /\ ~includes(item.name, ".")

\* SupabaseUtils.listFiles, by what the storage call gives.
listFiles(response) ==
    IF response.kind = "throws"
    THEN Catch("thrown")
    ELSE IF response.kind = "error"
    THEN Catch("error")
    ELSE Fulfilled("list", response.data, "null")

\* SupabaseUtils.listModels
listModels(response) ==
    IF response.kind = "throws"
    THEN Catch("thrown")
    ELSE IF response.kind = "error"
    THEN Catch("error")
    ELSE Fulfilled("list", SelectSeq(response.data, IsFolder), "null")

\* SupabaseUtils.listSimulationTypes
listSimulationTypes(response) ==
    IF response.kind = "throws"
    THEN Catch("thrown")
    ELSE IF response.kind = "error"
    THEN Catch("error")
    ELSE Fulfilled("list", SelectSeq(response.data, IsFolder), "null")

\* ------------------------------------------------------------ the load

\* container.meshes.find(mesh0), else the first mesh that is no root.
NoMesh == "none"
SelectMesh(meshes) ==
    IF \E i \in 1..Len(meshes) : meshes[i] = "mesh0"
    THEN "mesh0"
    ELSE IF \E i \in 1..Len(meshes) : meshes[i] \notin RootNames
         THEN meshes[CHOOSE i \in 1..Len(meshes) :
                        /\ meshes[i] \notin RootNames
                        /\ \A j \in 1..(i - 1) : meshes[j] \in RootNames]
         ELSE NoMesh

\* One call of fetchSimulationResults: where it is suspended (pc), the types
\* it was given, the type (ti) and file (fi) it is at, the files listed for
\* that type, its local simulationMeshes and, for the record, the types for
\* which it found a usable mesh.
NoLoad ==
    [pc |-> "new", types |-> <<>>, ti |-> 0, files |-> <<>>, fi |-> 0,
     simulationMeshes |-> <<>>, usable |-> <<>>]

Idle == \A g \in 1..MaxLoads : load[g].pc \in {"new", "done"}

Op(op, arg, from, hit) == [op |-> op, arg |-> arg, from |-> from, hit |-> hit]

Init ==
    /\ simulationResults = <<>>
    /\ currentSimulationType = Unset
    /\ availableSimulationTypes = <<>>
    /\ sceneMeshes = {}
    /\ enabled = {}
    /\ load = [g \in 1..MaxLoads |-> NoLoad]
    /\ genCount = 0
    /\ mounted = TRUE
    /\ lastOp = Op("init", "", "", FALSE)
    /\ uiRefs = FALSE
    /\ xrExperience = "unset"
    /\ inXRSession = FALSE
    /\ deviceType = "unknown"
    /\ spatialEnabled = FALSE
    /\ fullscreenVisible = FALSE
    /\ effectPending = FALSE
    /\ detectedInSession = FALSE
    /\ menus = [m \in MenuNames |-> NoMenu]
    /\ probe = NoProbe

\* The state of the controller as one value, and its assignment.
Cur == Ctl(simulationResults, currentSimulationType, enabled)

SetCtl(c) ==
    /\ simulationResults' = c.reg
    /\ currentSimulationType' = c.cur
    /\ enabled' = c.en

\* The model-change effect: the previous effect's cleanup, then the reset of
\* the refs and the synchronous head of fetchSimulationResults (up to its
\* first await). Meshes that are disposed and referenced by nothing are
\* dropped from the state.
ModelChange ==
    /\ mounted
    /\ genCount < MaxLoads
    /\ LET g      == genCount + 1
           scene1 == IF genCount > 0
                     THEN clearPreviousModels(sceneMeshes, simulationResults)
                     ELSE sceneMeshes
           scene2 == clearPreviousModels(scene1, simulationResults)
       IN  /\ genCount' = g
           /\ currentSimulationType' = Unset
           /\ availableSimulationTypes' = <<>>
           /\ sceneMeshes' = scene2
           /\ simulationResults' = <<>>
           /\ enabled' = enabled \cap scene2
           /\ load' = [h \in 1..MaxLoads |->
                         IF h = g THEN [NoLoad EXCEPT !.pc = "listTypes"]
                         ELSE IF load[h].pc = "done" THEN [NoLoad EXCEPT !.pc = "done"]
                         ELSE load[h]]
           /\ lastOp' = Op("modelChange", "", currentSimulationType,
                           RegistryMeshes(simulationResults) \cap sceneMeshes # {})
    /\ UNCHANGED <<mounted, uiVars, menus, probe>>

\* The end of the for loop over the types: show the current result.
FinishLoad(L, c) ==
    [L |-> [L EXCEPT !.pc = "done", !.ti = 0, !.fi = 0, !.files = <<>>,
                     !.simulationMeshes = <<>>],
     c |-> IF c.cur # Unset THEN showCurrentSimulationResult(c) ELSE c,
     outcome |-> "completed"]

\* The next iteration of the for loop over the types, or its end.
NextType(L, c) ==
    IF L.ti < Len(L.types)
    THEN [L |-> [L EXCEPT !.pc = "listFiles", !.ti = L.ti + 1, !.fi = 0,
                          !.files = <<>>, !.simulationMeshes = <<>>],
          c |-> c, outcome |-> "loading"]
    ELSE FinishLoad(L, c)

\* The callback of fetchSimulationResults().then in the model-change effect:
\* it runs when the call resolves, before any other event, with the refs of
\* that moment (no step that ends a call writes the list of types).
ButtonsStep(uis) ==
    createSimulationTypeButtons(
        uis, List(availableSimulationTypes),
        IF Len(availableSimulationTypes) > 0
        THEN availableSimulationTypes[1] ELSE Undefined)

\* What a step of load g leaves: its record, the controller, the menus, the
\* record of the operation.
LoadStep(g, r) ==
    /\ load' = [load EXCEPT ![g] = IF r.L.pc = "done" /\ g < genCount
                                   THEN [NoLoad EXCEPT !.pc = "done"]
                                   ELSE r.L]
    /\ SetCtl(r.c)
    /\ menus' = IF r.L.pc = "done" THEN ButtonsStep(menus) ELSE menus
    /\ lastOp' = Op(IF r.L.pc = "done" THEN "load" ELSE "loading", r.outcome,
                    IF lastOp.op = "modelChange"
                    THEN lastOp.from ELSE currentSimulationType,
                    r.outcome = "completed")

NoTypesFallingBack(L, c) ==
    [L |-> [L EXCEPT !.pc = "done"], c |-> [c EXCEPT !.cur = "default"],
     outcome |-> "empty"]

\* No simulation type found: the call logs and returns.
NoTypesFound(L, c) ==
    [L |-> [L EXCEPT !.pc = "done"], c |-> c, outcome |-> "empty"]

\* listSimulationTypes resolves.
ListTypesResolved(g, res) ==
    /\ mounted
    /\ load[g].pc = "listTypes"
    /\ IF res.data = "null" \/ Len(res.types) = 0
       THEN /\ LoadStep(g, NoTypesFound(load[g], Cur))
            /\ UNCHANGED availableSimulationTypes
       ELSE /\ availableSimulationTypes' = res.types
            /\ LoadStep(g, NextType(
                   [load[g] EXCEPT !.types = res.types],
                   [Cur EXCEPT !.cur = IF currentSimulationType = Unset
                                       THEN res.types[1]
                                       ELSE currentSimulationType]))
    /\ UNCHANGED <<sceneMeshes, genCount, mounted, uiVars, probe>>

\* listFiles of the type at hand resolves.
ListFilesResolved(g, res) ==
    /\ mounted
    /\ load[g].pc = "listFiles"
    /\ IF res.data = "null" \/ Len(res.files) = 0
       THEN LoadStep(g, NextType(load[g], Cur))
       ELSE LoadStep(g, [L |-> [load[g] EXCEPT !.pc = "loadAsset", !.fi = 1,
                                              !.files = res.files],
                        c |-> Cur, outcome |-> "loading"])
    /\ UNCHANGED <<availableSimulationTypes, sceneMeshes, genCount, mounted, uiVars,
                   probe>>

\* The end of the for loop over the files of a type: store the type if it
\* has meshes.
StoreType(L, c) ==
    IF Len(L.simulationMeshes) > 0
    THEN NextType(L, [c EXCEPT !.reg = MapSet(c.reg,
                          [type |-> L.types[L.ti], meshes |-> L.simulationMeshes,
                           currentIndex |-> 0])])
    ELSE NextType(L, c)

\* The next iteration of the for loop over the files, or its end.
NextFile(L, c) ==
    IF L.fi < Len(L.files)
    THEN [L |-> [L EXCEPT !.fi = L.fi + 1], c |-> c, outcome |-> "loading"]
    ELSE StoreType(L, c)

\* The files of one type folder are exports of one tool: a usable file has
\* the mesh names of the usable files listed before it in the folder.
SameExporter(meshes, out) ==
    (out.ok /\ SelectMesh(out.meshes) # NoMesh /\ Len(meshes) > 0)
        => SelectMesh(out.meshes) = meshes[Len(meshes)].n

UnshiftMesh(meshes, m) == <<m>> \o meshes

\* simulationMeshes.push
PushMesh(meshes, m) == Append(meshes, m)

\* getPublicUrl and LoadAssetContainerAsync of the file at hand resolve, or
\* the latter rejects and the catch block ends the call.
LoadAssetResolved(g, out) ==
    /\ mounted
    /\ load[g].pc = "loadAsset"
    /\ SameExporter(load[g].simulationMeshes, out)
    /\ LET L      == load[g]
           t      == L.types[L.ti]
           f      == L.files[L.fi]
           chosen == SelectMesh(out.meshes)
           added  == {Mesh(g, t, f, out.meshes[i]) : i \in 1..Len(out.meshes)}
       IN  IF ~out.ok
           THEN /\ LoadStep(g, [L |-> [L EXCEPT !.pc = "done", !.ti = 0, !.fi = 0,
                                                !.files = <<>>,
                                                !.simulationMeshes = <<>>],
                                c |-> Cur, outcome |-> "aborted"])
                /\ UNCHANGED sceneMeshes
           ELSE IF chosen = NoMesh
           THEN /\ LoadStep(g, NextFile(L, Cur))
                /\ UNCHANGED sceneMeshes
           ELSE /\ sceneMeshes' = sceneMeshes \cup added
                /\ LoadStep(g, NextFile(
                       [L EXCEPT !.simulationMeshes =
                                     PushMesh(@, Mesh(g, t, f, chosen)),
                                 !.usable = IF Len(@) > 0 /\ @[Len(@)] = t
                                            THEN @ ELSE Append(@, t)],
                       [Cur EXCEPT !.en = (@ \cup added) \ {Mesh(g, t, f, chosen)}]))
    /\ UNCHANGED <<availableSimulationTypes, genCount, mounted, uiVars, probe>>

\* ------------------------------------------------------------ the intents

\* Names a switch intent can carry: the folder names and one that no model has.
SwitchTargets == TypeNames \cup {"nonexistent"}

\* The cycle button of either menu: cycleSimulationResults.
CycleVariant ==
    /\ mounted
    /\ SetCtl(cycleSimulationResults(Cur))
    /\ lastOp' = Op("cycleVariant", "", currentSimulationType,
                    currentSimulationType # Unset
                        /\ MapHas(simulationResults, currentSimulationType))
    /\ UNCHANGED <<availableSimulationTypes, sceneMeshes, load, genCount, mounted,
                   uiVars, menus, probe>>

\* A simulation type button: switchSimulationType(typeName).
SwitchType(t) ==
    /\ mounted
    /\ SetCtl(switchSimulationType(Cur, t))
    /\ lastOp' = Op("switchType", t, currentSimulationType,
                    MapHas(simulationResults, t))
    /\ UNCHANGED <<availableSimulationTypes, sceneMeshes, load, genCount, mounted,
                   uiVars, menus, probe>>

\* The T key: the keyboard observer of setupManualTriggerHandling.
CycleType ==
    /\ mounted
    /\ SetCtl(manualTrigger(Cur, availableSimulationTypes))
    /\ lastOp' = Op("cycleType", "", currentSimulationType,
                    Len(simulationResults) >= 2)
    /\ UNCHANGED <<availableSimulationTypes, sceneMeshes, load, genCount, mounted,
                   uiVars, menus, probe>>

\* The cleanup of the model-change effect when the component unmounts.
Unmount ==
    /\ mounted
    /\ genCount > 0
    /\ mounted' = FALSE
    /\ sceneMeshes' = clearPreviousModels(sceneMeshes, simulationResults)
    /\ lastOp' = Op("clear", "", currentSimulationType, TRUE)
    /\ UNCHANGED <<simulationResults, currentSimulationType,
                   availableSimulationTypes, enabled, load, genCount, uiVars,
                   menus, probe>>

\* ------------------------------------------------- menus and device state

\* The two menu surfaces as one value: m.refs, m.spatial, m.flat.
Ui == [refs |-> uiRefs, spatial |-> spatialEnabled, flat |-> fullscreenVisible]

SetUi(m) ==
    /\ uiRefs' = m.refs
    /\ spatialEnabled' = m.spatial
    /\ fullscreenVisible' = m.flat

\* The deviceType that updateUIVisibility reads: the function is created by
\* the effect that runs once on mount, so it keeps the first render's value.
MountDeviceType == "unknown"

\* updateUIVisibility(inXRSession)
updateUIVisibility(m, inXR) ==
    IF m.refs
    THEN LET isVRHeadset == (MountDeviceType = "vr-headset")
         IN  [m EXCEPT !.spatial = inXR /\ isVRHeadset,
                       !.flat = ~inXR \/ (inXR /\ ~isVRHeadset)]
    ELSE m

EffectSpatialOnly(m, device, inXR) ==
    IF ~m.refs
    THEN m
    ELSE [m EXCEPT !.spatial = inXR /\ (device = "vr-headset")]

\* The effect on [deviceType, inXRSession].
uiVisibilityEffect(m, device, inXR) ==
    IF ~m.refs
    THEN m
    ELSE LET isVRHeadset == (device = "vr-headset")
         IN  [m EXCEPT !.spatial = inXR /\ isVRHeadset,
                       !.flat = ~inXR \/ (inXR /\ ~isVRHeadset)]

CheckResettingDeviceType(device, hasControllers) ==
    IF hasControllers THEN "vr-headset" ELSE "unknown"

\* checkForControllers: the deviceType it leaves.
checkForControllers(device, hasControllers) ==
    IF hasControllers THEN "vr-headset" ELSE device

\* The three states of the device, from the two React states.
DeviceState ==
    IF ~inXRSession THEN "NoSession"
    ELSE IF deviceType = "vr-headset" THEN "InSessionHeadset"
    ELSE "InSessionDesktopLike"

\* A menu whose content is still to be parsed: an empty root container.
CreatedMenu ==
    [ref |-> TRUE, parse |-> "pending",
     children |-> <<Container(<<"root">>, <<>>)>>]

\* What the snippet of a menu holds: the cycle button and the main panel
\* with the container of the type buttons, empty or with a placeholder.
SnippetContent(inside) ==
    <<Control(<<"cycleColorButton">>, "button", DEFAULT_COLOR, "", <<>>),
      Container(<<"mainPanel">>, <<Container(SimContainerName, inside)>>)>>

SnippetContents ==
    {SnippetContent(inside) : inside \in { <<>>, <<TextBlock(<<"placeholder">>)>> }}

\* A menu after its snippet is parsed.
ParsedMenu(content) ==
    [ref |-> TRUE, parse |-> "parsed",
     children |-> <<Container(<<"root">>, content)>>]

\* xrPromise resolves: both menus are created, the spatial one disabled; a
\* device without XR support gets updateUIVisibility(false).
CreateMenus(vrCapable) ==
    /\ mounted
    /\ xrExperience = "unset"
    /\ LET m == [refs |-> TRUE, spatial |-> FALSE, flat |-> TRUE]
       IN  IF vrCapable
           THEN SetUi(m) /\ xrExperience' = "creating"
           ELSE SetUi(updateUIVisibility(m, FALSE)) /\ xrExperience' = "absent"
    /\ menus' = [m \in MenuNames |-> CreatedMenu]
    /\ lastOp' = Op("createMenus", "", DeviceState, vrCapable)
    /\ UNCHANGED <<inXRSession, deviceType, effectPending, detectedInSession>>

\* parseFromSnippetAsync of menu m resolves, the parsed controls replacing
\* the root container, or rejects and the menu stays empty.
ParseResolved(m, ok, content) ==
    /\ mounted
    /\ menus[m].parse = "pending"
    /\ menus' = [menus EXCEPT ![m] =
                    IF ok
                    THEN ParsedMenu(content)
                    ELSE [@ EXCEPT !.parse = "failed"]]
    /\ lastOp' = Op("parseMenu", m, DeviceState, ok)
    /\ UNCHANGED uiVars

\* Whether menu m is on screen.
MenuShown(m) == IF m = "fullscreen" THEN fullscreenVisible ELSE spatialEnabled

\* A pointer-up on the k-th control of the type container of menu m, a
\* button: its click handler.
PressTypeButton(m, k) ==
    /\ mounted
    /\ MenuShown(m)
    /\ LET simContainer == findControlByName(menus[m], SimContainerName)
       IN  /\ simContainer.found
           /\ k \in 1..Len(simContainer.control.children)
           /\ IsButton(simContainer.control.children[k])
           /\ LET typeName == simContainer.control.children[k].typeName
              IN  /\ menus' = ClickVisuals(menus, m, typeName)
                  /\ SetCtl(switchSimulationType(Cur, typeName))
                  /\ lastOp' = Op("pressTypeButton", typeName,
                                  currentSimulationType,
                                  MapHas(simulationResults, typeName))
    /\ UNCHANGED <<availableSimulationTypes, sceneMeshes, load, genCount, mounted,
                   uiVars, probe>>

\* createDefaultXRExperienceAsync resolves (performInputDetection makes its
\* first check, before any controller is connected) or rejects.
XRExperienceResolved(ok) ==
    /\ mounted
    /\ xrExperience = "creating"
    /\ IF ok
       THEN /\ xrExperience' = "created"
            /\ deviceType' = checkForControllers(deviceType, FALSE)
            /\ SetUi(Ui)
       ELSE /\ xrExperience' = "absent"
            /\ SetUi(updateUIVisibility(Ui, FALSE))
            /\ UNCHANGED deviceType
    /\ lastOp' = Op("xrExperience", "", DeviceState, ok)
    /\ UNCHANGED <<inXRSession, effectPending, detectedInSession, menus>>

\* The observer of onStateChangedObservable: setInXRSession.
XRStateChanged(state) ==
    /\ mounted
    /\ xrExperience = "created"
    /\ (state = "IN_XR") = ~inXRSession
    /\ inXRSession' = (state = "IN_XR")
    /\ effectPending' = TRUE
    /\ detectedInSession' = FALSE
    /\ lastOp' = Op("xrState", state, DeviceState, TRUE)
    /\ UNCHANGED <<uiRefs, xrExperience, deviceType, spatialEnabled,
                   fullscreenVisible, menus>>

\* The observer of onControllerAddedObservable: checkForControllers, which
\* finds a motion controller or none.
ControllerAdded(hasControllers) ==
    /\ mounted
    /\ xrExperience = "created"
    /\ deviceType' = checkForControllers(deviceType, hasControllers)
    /\ effectPending' = (effectPending \/ deviceType' # deviceType)
    /\ IF hasControllers
       THEN SetUi(updateUIVisibility(Ui, TRUE))
       ELSE SetUi(Ui)
    /\ detectedInSession' = (detectedInSession \/ (hasControllers /\ inXRSession))
    /\ lastOp' = Op("checkForControllers", "", DeviceState, hasControllers)
    /\ UNCHANGED <<xrExperience, inXRSession, menus>>

\* The render that follows a change of deviceType or inXRSession runs the
\* effect with the values of that render.
UIVisibilityEffect ==
    /\ mounted
    /\ effectPending
    /\ effectPending' = FALSE
    /\ SetUi(uiVisibilityEffect(Ui, deviceType, inXRSession))
    /\ lastOp' = Op("uiEffect", "", DeviceState, TRUE)
    /\ UNCHANGED <<xrExperience, inXRSession, deviceType, detectedInSession,
                   menus>>

\* What a device event leaves alone.
DeviceFrame ==
    UNCHANGED <<simulationResults, currentSimulationType,
                availableSimulationTypes, sceneMeshes, enabled, load,
                genCount, mounted, probe>>

\* -------------------------------------------------------- specifications

\* Every operation starts after the load before it has resolved.
Next ==
    \/ Idle /\ ModelChange
    \/ \E g \in 1..MaxLoads, res \in ListTypesResults : ListTypesResolved(g, res)
    \/ \E g \in 1..MaxLoads, res \in ListFilesResults : ListFilesResolved(g, res)
    \/ \E g \in 1..MaxLoads, out \in FetchOutcomes : LoadAssetResolved(g, out)
    \/ Idle /\ CycleVariant
    \/ Idle /\ \E t \in SwitchTargets : SwitchType(t)
    \/ Idle /\ CycleType
    \/ Idle /\ Unmount

Spec == Init /\ [][Next]_vars

\* The model changes while the load of the model before it is in flight: the
\* steps of the loads interleave in every order.
\* The listings of the overlapping loads: none, one type, and two listings
\* that share a type.
OverlapListings == { <<>>, <<"default">>, <<"pressure", "default">> }

NextSupersede ==
    \/ ModelChange
    \/ \E g \in 1..MaxLoads, res \in ListTypesOf(OverlapListings) :
           ListTypesResolved(g, res)
    \/ \E g \in 1..MaxLoads, res \in ListFilesUpTo(MaxFilesOverlap) :
           ListFilesResolved(g, res)
    \/ \E g \in 1..MaxLoads, out \in FetchOutcomes : LoadAssetResolved(g, out)

SpecSupersede == Init /\ [][NextSupersede]_vars

\* The device events, with model reloads in between.
\* Largest number of files of a type in a reload between device events.
MaxFilesReload == 1

ReloadListings == { <<>>, <<"default">> }

NextDevice ==
    \/ DeviceFrame /\ \E vrCapable \in BOOLEAN : CreateMenus(vrCapable)
    \/ DeviceFrame /\ \E ok \in BOOLEAN : XRExperienceResolved(ok)
    \/ DeviceFrame /\ \E state \in {"IN_XR", "NOT_IN_XR"} : XRStateChanged(state)
    \/ DeviceFrame /\ \E hasControllers \in BOOLEAN : ControllerAdded(hasControllers)
    \/ DeviceFrame /\ UIVisibilityEffect
    \/ Idle /\ ModelChange
    \/ \E g \in 1..MaxLoads, res \in ListTypesOf(ReloadListings) :
           ListTypesResolved(g, res)
    \/ \E g \in 1..MaxLoads, res \in ListFilesUpTo(MaxFilesReload) :
           ListFilesResolved(g, res)
    \/ \E g \in 1..MaxLoads, out \in FetchOutcomes : LoadAssetResolved(g, out)

SpecDevice == Init /\ [][NextDevice]_vars

\* One load at a time, with the cycle button and the type buttons pressed
\* at any point between its steps.
NextIntents ==
    \/ Idle /\ ModelChange
    \/ \E g \in 1..MaxLoads, res \in ListTypesOf(OverlapListings) :
           ListTypesResolved(g, res)
    \/ \E g \in 1..MaxLoads, res \in ListFilesUpTo(MaxFilesOverlap) :
           ListFilesResolved(g, res)
    \/ \E g \in 1..MaxLoads, out \in FetchOutcomes : LoadAssetResolved(g, out)
    \/ CycleVariant
    \/ \E t \in SwitchTargets : SwitchType(t)

SpecIntents == Init /\ [][NextIntents]_vars

\* The listing functions on what the storage can give, and a load whose
\* listFiles calls settle to what the function gave last.
\* The entries of a folder: two folders, one with an underscore in its name,
\* a result file, a placeholder file and a file without extension.
StorageEntries ==
    { [name |-> <<"t", "1">>, id |-> "null"],
      [name |-> <<"s", "_", "t">>, id |-> "null"],
      [name |-> <<"r", ".", "g", "l", "b">>, id |-> "uuid"],
      [name |-> <<".", "k", "e", "e", "p">>, id |-> "uuid"],
      [name |-> <<"n", "o", "t", "e", "s">>, id |-> "uuid"] }

\* The listings of a folder: its entries, each once, in any order.
StorageListings ==
    UNION {{l \in [1..n -> StorageEntries] :
                \A i, j \in 1..n : l[i] = l[j] => i = j} : n \in 0..MaxEntries}

StorageResponses ==
    {StorageError, StorageThrows} \cup {StorageOk(l) : l \in StorageListings}

\* A call of a listing function settles: any of the three before a model is
\* loaded, and the call of listFiles a load awaits.
StorageCall(fn, response) ==
    /\ IF genCount = 0
       THEN TRUE
       ELSE fn = "listFiles" /\ \E g \in 1..MaxLoads : load[g].pc = "listFiles"
    /\ probe' = [fn |-> fn, response |-> response,
                 result |-> IF fn = "listFiles" THEN listFiles(response)
                            ELSE IF fn = "listModels" THEN listModels(response)
                            ELSE listSimulationTypes(response)]
    /\ UNCHANGED <<simulationResults, currentSimulationType,
                   availableSimulationTypes, sceneMeshes, enabled, load,
                   genCount, mounted, lastOp, uiVars, menus>>

\* files of fetchSimulationResults, from what listFiles settled to: file k
\* is the k-th item.
AwaitedFiles(result) ==
    [data |-> result.data, files |-> [k \in 1..Len(result.items) |-> k]]

\* The types of the models loaded while the listings fail.
StorageTypeListings == { <<"default">>, <<"default", "pressure">> }

NextStorage ==
    \/ \E fn \in {"listFiles", "listModels", "listSimulationTypes"},
          response \in StorageResponses : StorageCall(fn, response)
    \/ Idle /\ ModelChange
    \/ \E g \in 1..MaxLoads, res \in ListTypesOf(StorageTypeListings) :
           ListTypesResolved(g, res)
    \/ \E g \in 1..MaxLoads :
           /\ probe.fn = "listFiles"
           /\ probe.result.state = "fulfilled"
           /\ ListFilesResolved(g, AwaitedFiles(probe.result))
    \/ \E g \in 1..MaxLoads, out \in FetchOutcomes : LoadAssetResolved(g, out)

SpecStorage == Init /\ [][NextStorage]_vars

\* The menus and their type buttons: the menus are created and parsed while
\* models load, the device changes state, and the user presses type buttons
\* and the T key between the loads.
\* The listings of the models: no type, one, and two of which one has an
\* underscore in its name.
ButtonListings == { <<>>, <<"default">>, <<"default", "simulation_type1">> }

\* The indexes of the controls of a type container.
ButtonIndexes == UNION {1..(1 + Len(l)) : l \in ButtonListings}

NextButtons ==
    \/ DeviceFrame /\ \E vrCapable \in BOOLEAN : CreateMenus(vrCapable)
    \/ DeviceFrame /\ \E m \in MenuNames, ok \in BOOLEAN,
                         content \in SnippetContents :
           ParseResolved(m, ok, content)
    \/ DeviceFrame /\ \E ok \in BOOLEAN : XRExperienceResolved(ok)
    \/ DeviceFrame /\ \E state \in {"IN_XR", "NOT_IN_XR"} : XRStateChanged(state)
    \/ DeviceFrame /\ \E hasControllers \in BOOLEAN : ControllerAdded(hasControllers)
    \/ DeviceFrame /\ UIVisibilityEffect
    \/ Idle /\ ModelChange
    \/ \E g \in 1..MaxLoads, res \in ListTypesOf(ButtonListings) :
           ListTypesResolved(g, res)
    \/ \E g \in 1..MaxLoads, res \in ListFilesUpTo(MaxFilesReload) :
           ListFilesResolved(g, res)
    \/ \E g \in 1..MaxLoads, out \in FetchOutcomes : LoadAssetResolved(g, out)
    \/ Idle /\ \E m \in MenuNames, k \in ButtonIndexes : PressTypeButton(m, k)
    \/ Idle /\ xrExperience = "created" /\ CycleType

SpecButtons == Init /\ [][NextButtons]_vars

\* findControlByName on trees of controls.
\* createSimulationTypeButtons on menus in every state: no menu, a menu not
\* parsed yet, a parsed menu whose type container is empty, holds a
\* placeholder, or holds the header and a button of a model loaded before.
CreateMenusOf(m) ==
    {NoMenu, CreatedMenu} \cup
    {ParsedMenu(SnippetContent(inside)) :
         inside \in { <<>>,
                      <<TextBlock(<<"placeholder">>)>>,
                      <<TextBlock(NoName), TypeButton("stress", m, "stress")>> }}

\* The lists of types it is called with, and the current types.
CreateLists ==
    {Missing} \cup
    {List(l) : l \in ButtonListings \cup { <<"pressure", "default">> }}
CreateCurrents == {"default", "simulation_type1", "stress", Undefined}

\* A call of createSimulationTypeButtons.
CreateButtonsCall(uis, simulationTypes, currentType) ==
    /\ probe' = [fn |-> "createSimulationTypeButtons", uis |-> uis,
                 simulationTypes |-> simulationTypes,
                 currentType |-> currentType,
                 result |-> createSimulationTypeButtons(
                                uis, simulationTypes, currentType)]
    /\ UNCHANGED <<simulationResults, currentSimulationType,
                   availableSimulationTypes, sceneMeshes, enabled, load,
                   genCount, mounted, lastOp, uiVars, menus>>

NextCreateButtons ==
    \E fullscreenUI \in CreateMenusOf("fullscreen"),
       spacialUI \in CreateMenusOf("spacial"),
       simulationTypes \in CreateLists, currentType \in CreateCurrents :
        CreateButtonsCall([m \in MenuNames |-> IF m = "fullscreen"
                                               THEN fullscreenUI ELSE spacialUI],
                          simulationTypes, currentType)

SpecCreateButtons == Init /\ [][NextCreateButtons]_vars

\* updateSimulationTypeButtonHighlight on menus that hold type buttons: the
\* menus createSimulationTypeButtons leaves for a listing and a current type.
HighlightMenus ==
    {createSimulationTypeButtons(
         [m \in MenuNames |-> IF m = "fullscreen" THEN fullscreenUI
                              ELSE spacialUI],
         List(l), currentType) :
         fullscreenUI \in {NoMenu, CreatedMenu, ParsedMenu(SnippetContent(<<>>))},
         spacialUI \in {NoMenu, CreatedMenu, ParsedMenu(SnippetContent(<<>>))},
         l \in (ButtonListings \cup { <<"pressure", "default">> }) \ { <<>> },
         currentType \in CreateCurrents}

\* A call of updateSimulationTypeButtonHighlight.
HighlightCall(uis, currentType) ==
    /\ probe' = [fn |-> "updateSimulationTypeButtonHighlight", uis |-> uis,
                 currentType |-> currentType,
                 result |-> updateSimulationTypeButtonHighlight(uis, currentType)]
    /\ UNCHANGED <<simulationResults, currentSimulationType,
                   availableSimulationTypes, sceneMeshes, enabled, load,
                   genCount, mounted, lastOp, uiVars, menus>>

NextHighlight ==
    \E uis \in HighlightMenus, currentType \in CreateCurrents \cup {"pressure"} :
        HighlightCall(uis, currentType)

SpecHighlight == Init /\ [][NextHighlight]_vars

\* The shape of a control: a plain control or a container of shapes.
Plain == [container |-> FALSE, kids |-> <<>>]
Nested(kids) == [container |-> TRUE, kids |-> kids]

\* The shapes of the children of a menu: none, plain controls, containers
\* that are empty or not, up to three levels deep, before and after other
\* controls.
FindShapes ==
    { <<>>,
      <<Plain>>,
      <<Plain, Plain>>,
      <<Nested(<<>>)>>,
      <<Nested(<<Plain>>)>>,
      <<Nested(<<Plain>>), Plain>>,
      <<Nested(<<>>), Nested(<<Plain>>)>>,
      <<Nested(<<Nested(<<Plain>>)>>)>>,
      <<Nested(<<Plain>>), Nested(<<Nested(<<Plain>>)>>)>>,
      <<Plain, Nested(<<Plain, Plain>>)>> }

\* The names the controls carry, and the names looked for.
FindNames == { <<"cycleColorButton">>, <<"simulationTypesContainer">> }
FindTargets == { <<"simulationTypesContainer">>, <<"mainPanel">> }

\* The trees of a shape, with every choice of names.
RECURSIVE NamedChildren(_)
NamedChildren(shapes) ==
    IF shapes = <<>>
    THEN {<<>>}
    ELSE {<<Control(n, IF Head(shapes).container THEN "container" ELSE "text",
                    "", "", kids)>> \o rest :
              n \in FindNames,
              kids \in NamedChildren(Head(shapes).kids),
              rest \in NamedChildren(Tail(shapes))}

\* The menus findControlByName is called with: null, and every tree.
FindMenus ==
    {NoMenu} \cup
    {[ref |-> TRUE, parse |-> "parsed", children |-> c] :
         c \in UNION {NamedChildren(sh) : sh \in FindShapes}}

\* A call of findControlByName.
FindCall(menu, controlName) ==
    /\ probe' = [fn |-> "findControlByName", menu |-> menu,
                 controlName |-> controlName,
                 result |-> findControlByName(menu, controlName)]
    /\ UNCHANGED <<simulationResults, currentSimulationType,
                   availableSimulationTypes, sceneMeshes, enabled, load,
                   genCount, mounted, lastOp, uiVars, menus>>

NextFind ==
    \E menu \in FindMenus, controlName \in FindTargets :
        FindCall(menu, controlName)

SpecFind == Init /\ [][NextFind]_vars

\* ------------------------------------------------------------- vocabulary

\* The load started last has resolved and nothing else has happened since.
LoadResolved == Idle /\ lastOp.op = "load"

\* The load started last ran to the end of its loop over the types.
LoadCompleted == LoadResolved /\ lastOp.arg = "completed"

\* The types the load started last was given, and those among them for which
\* it fetched a usable mesh.
ReportedTypes == IF genCount = 0 THEN <<>> ELSE load[genCount].types
UsableTypes == IF genCount = 0 THEN <<>> ELSE load[genCount].usable

CurrentRegistered ==
    currentSimulationType # Unset /\ MapHas(simulationResults, currentSimulationType)

CurrentResult == MapGet(simulationResults, currentSimulationType)

\* The enabled variants of a result.
EnabledOf(r) == Range(r.meshes) \cap enabled

\* Meshes with geometry (no transform roots) that are enabled, among the
\* variants of the registry and the meshes in the scene.
EnabledGeometry ==
    {m \in (RegistryMeshes(simulationResults) \cup sceneMeshes) \cap enabled :
        m.n \notin RootNames}

\* ------------------------------------------------------------------ claims

\* C1: at most one mesh is enabled, over the variants of every simulation
\* type of the registry and over every mesh a load added to the scene, in
\* every state reached by loads, cycleVariant, switchType, cycleType and clear
\* run one after the other. (Transform roots, which draw nothing, are not
\* counted.)
C1_AtMostOneEnabled == Cardinality(EnabledGeometry) <= 1

\* C2: after a load that ran to its end with a non-empty registry, the current
\* type is the first type reported, it is a key of the registry, and exactly
\* one variant is enabled: variants[0] of the current type.
C2_LoadShowsFirstType ==
    (LoadCompleted /\ Len(simulationResults) > 0)
        => /\ currentSimulationType = ReportedTypes[1]
           /\ CurrentRegistered
           /\ CurrentResult.currentIndex = 0
           /\ RegistryMeshes(simulationResults) \cap enabled
                  = {MeshAt(CurrentResult, 0)}

\* C3: after a resolved load and any number (0 or more) of cycleVariant calls,
\* exactly one variant of the current type's result is enabled, and it is
\* variants[currentIndex].
C3_OneVariantOfCurrent ==
    (Idle /\ mounted /\ lastOp.op \in {"load", "cycleVariant"} /\ CurrentRegistered)
        => EnabledOf(CurrentResult)
               = {MeshAt(CurrentResult, CurrentResult.currentIndex)}

RECURSIVE CycleTimes(_, _)
CycleTimes(c, k) ==
    IF k = 0 THEN c ELSE CycleTimes(cycleSimulationResults(c), k - 1)

\* A cycleVariant step on a registered current type of n variants moves
\* currentIndex to (currentIndex + 1) mod n, hides the old variant and shows
\* the new one.
C5_Step ==
    (lastOp'.op = "cycleVariant" /\ CurrentRegistered)
        => LET r  == CurrentResult
               n  == Len(r.meshes)
               r2 == MapGet(simulationResults', currentSimulationType)
           IN  /\ currentSimulationType' = currentSimulationType
               /\ r2.meshes = r.meshes
               /\ r2.currentIndex = (r.currentIndex + 1) % n
               /\ MeshAt(r2, r2.currentIndex) \in enabled'
               /\ n > 1 => MeshAt(r, r.currentIndex) \notin enabled'

\* n calls on a current type of n variants restore currentIndex, and the
\* enabled meshes when the current variant was the enabled one.
C5_Return ==
    (Idle /\ mounted /\ CurrentRegistered)
        => LET n == Len(CurrentResult.meshes)
               c == CycleTimes(Cur, n)
           IN  /\ c.reg = simulationResults
               /\ c.cur = currentSimulationType
               /\ MeshAt(CurrentResult, CurrentResult.currentIndex) \in c.en
               /\ MeshAt(CurrentResult, CurrentResult.currentIndex) \in enabled
                      => c.en = enabled

\* C5: cycleVariant on a current type with n >= 1 variants sets currentIndex
\* to (currentIndex + 1) mod n, hiding the old variant and showing the new
\* one, so n calls in a row restore currentIndex and the visible variant.
C5_CycleAdvancesAndWraps == []C5_Return /\ [][C5_Step]_vars

\* The third call on a type of three variants has wrapped to index 0.
C5_Witness ==
    /\ lastOp.op = "cycleVariant"
    /\ lastOp.hit
    /\ CurrentRegistered
    /\ Len(CurrentResult.meshes) = 3
    /\ CurrentResult.currentIndex = 0

\* The index every type is at.
IndexOf(reg) == [i \in 1..Len(reg) |-> <<reg[i].type, reg[i].currentIndex>>]

\* A switch (by button or by key) changes no type's currentIndex and shows
\* the target's variant at the index it had; a cycleVariant changes the
\* current type's result only.
C6_Frame ==
    /\ lastOp'.op \in {"switchType", "cycleType"}
           => IndexOf(simulationResults') = IndexOf(simulationResults)
    /\ (lastOp'.op = "switchType" /\ lastOp'.hit)
           => LET r == MapGet(simulationResults, lastOp'.arg)
              IN  MeshAt(r, r.currentIndex) \in enabled'
    /\ lastOp'.op = "cycleVariant"
           => /\ Len(simulationResults') = Len(simulationResults)
              /\ \A i \in 1..Len(simulationResults) :
                     simulationResults[i].type # currentSimulationType
                         => simulationResults'[i] = simulationResults[i]

\* A type enters the registry at index 0.
C6_StartsAtZero ==
    LoadResolved
        => \A i \in 1..Len(simulationResults) : simulationResults[i].currentIndex = 0

SuccessorType(keys, t) ==
    LET i == CHOOSE k \in 1..Len(keys) : keys[k] = t
    IN  keys[(i % Len(keys)) + 1]

\* C7: cycleType (the T key) makes the type after the current one in
\* discovery order current, wrapping, and shows its variant; with fewer than
\* two registered types it changes nothing.
C7_CycleTypeNext ==
    (lastOp.op = "cycleType" /\ MapHas(simulationResults, lastOp.from))
        => IF Len(simulationResults) < 2
           THEN currentSimulationType = lastOp.from
           ELSE /\ currentSimulationType
                      = SuccessorType(MapKeys(simulationResults), lastOp.from)
                /\ MeshAt(CurrentResult, CurrentResult.currentIndex) \in enabled

\* C8: a file that fails to fetch is skipped: once the load has resolved,
\* every type for which a usable file was fetched is registered and the
\* current variant is shown.
C8_FetchFailureIsolated ==
    LoadResolved
        => /\ \A t \in Range(UsableTypes) : MapHas(simulationResults, t)
           /\ CurrentRegistered
                  => MeshAt(CurrentResult, CurrentResult.currentIndex) \in enabled

\* C10: after a load that was not cut short, the available types are the
\* reported types with at least one usable file, in discovery order, and
\* they are the keys of the registry.
C10_AvailableTypes ==
    (LoadResolved /\ lastOp.arg # "aborted")
        => /\ availableSimulationTypes = UsableTypes
           /\ availableSimulationTypes = MapKeys(simulationResults)

\* C9: once a load and the load that superseded it have both resolved, the
\* registry holds only variants fetched by the later load, the current type
\* is one of the later load's types, and at most one variant is enabled.
C9_StaleResultsDiscarded ==
    (genCount >= 2 /\ Idle)
        => /\ \A m \in RegistryMeshes(simulationResults) : m.g = genCount
           /\ currentSimulationType \in {Unset} \cup Range(ReportedTypes)
           /\ Cardinality(RegistryMeshes(simulationResults) \cap enabled) <= 1

C12_NoDisposedInRegistry ==
    mounted => \A m \in RegistryMeshes(simulationResults) :
                   ~isDisposed(sceneMeshes, m)

\* The menus show what the device state asks for.
MenusMatchState ==
    IF DeviceState = "InSessionHeadset"
    THEN spatialEnabled /\ ~fullscreenVisible
    ELSE fullscreenVisible /\ ~spatialEnabled

\* C13: once an event is fully handled (no render is pending), the flat menu
\* is visible and the spatial one hidden in NoSession and
\* InSessionDesktopLike, and the other way round in InSessionHeadset.
C13_MenusFollowState == (uiRefs /\ ~effectPending) => MenusMatchState

\* C14: no event moves the device from InSessionHeadset to
\* InSessionDesktopLike.
C14_Step ==
    DeviceState = "InSessionHeadset" => DeviceState' # "InSessionDesktopLike"

C14_HeadsetSticky == [][C14_Step]_vars

\* In a headset session, a controller check found none and a model was
\* reloaded.
C14_Witness ==
    /\ DeviceState = "InSessionHeadset"
    /\ lastOp.op = "checkForControllers"
    /\ ~lastOp.hit
    /\ lastOp.from = "InSessionHeadset"
    /\ genCount >= 2

\* C15: a session in which no controller was detected yet is
\* InSessionDesktopLike, whatever happened before it began, and once its
\* events are handled the flat menu is visible and the spatial one hidden.
C15_DetectionPerSession ==
    (inXRSession /\ ~detectedInSession)
        => /\ DeviceState = "InSessionDesktopLike"
           /\ (uiRefs /\ ~effectPending)
                  => (fullscreenVisible /\ ~spatialEnabled)

ManualTarget ==
    IF currentSimulationType = "default"
    THEN IF Len(availableSimulationTypes) >= 2
         THEN availableSimulationTypes[2] ELSE Undefined
    ELSE "default"

\* C17: switchType(t) with t no key of the registry (an unknown name,
\* undefined from the T key, or a listed type without a usable file) changes
\* neither the current type nor any currentIndex nor any mesh's visibility.
C17_Step ==
    (\/ lastOp'.op = "switchType" /\ ~MapHas(simulationResults, lastOp'.arg)
     \/ lastOp'.op = "cycleType" /\ ~MapHas(simulationResults, ManualTarget))
        => UNCHANGED <<simulationResults, currentSimulationType, enabled,
                       sceneMeshes, availableSimulationTypes>>

C17_UnknownSwitchIsNoOp == [][C17_Step]_vars

\* A button of a listed type that has no usable file was pressed while a
\* variant of another type was shown.
C17_Witness ==
    /\ lastOp.op = "switchType"
    /\ ~lastOp.hit
    /\ lastOp.arg \in Range(availableSimulationTypes)
    /\ CurrentRegistered
    /\ EnabledOf(CurrentResult) # {}

\* C18: cycleVariant with the current type unset or not in the registry
\* changes neither the current type nor any currentIndex nor any mesh's
\* visibility.
C18_Step ==
    (/\ lastOp'.op = "cycleVariant"
     /\ currentSimulationType = Unset
            \/ ~MapHas(simulationResults, currentSimulationType))
        => UNCHANGED <<simulationResults, currentSimulationType, enabled,
                       sceneMeshes, availableSimulationTypes>>

C18_CycleWithoutCurrentIsNoOp == [][C18_Step]_vars

\* cycleVariant was called with a current type that is not registered while
\* the registry holds another type.
C18_Witness ==
    /\ lastOp.op = "cycleVariant"
    /\ ~lastOp.hit
    /\ currentSimulationType # Unset
    /\ Len(simulationResults) > 0

\* C19: a load whose listing of types is empty or failed resolves and leaves
\* the registry empty, the current type unset and nothing visible: the
\* controller is as it was before its first load, so that the load after it
\* starts as a first load does.
C19_EmptyLoadLeavesNothing ==
    (lastOp.op = "load" /\ lastOp.arg = "empty")
        => /\ Idle
           /\ simulationResults = <<>>
           /\ currentSimulationType = Unset
           /\ availableSimulationTypes = <<>>
           /\ sceneMeshes = {}
           /\ enabled = {}

\* A model without types was loaded after a model that had a current type.
C19_Witness ==
    /\ lastOp.op = "load"
    /\ lastOp.arg = "empty"
    /\ lastOp.from # Unset
    /\ genCount >= 2

\* The files the variants of a result come from, in order.
FilesOf(r) == [i \in 1..Len(r.meshes) |-> r.meshes[i].f]

\* The files of type t that the load started last fetched a usable mesh from.
UsableFiles(t) == {m.f : m \in {x \in sceneMeshes : x.g = genCount /\ x.t = t}}

\* Once the load has resolved, the variants of a registered type are its
\* usable files, one variant each, in the order they were listed.
C20_Variants ==
    (Idle /\ mounted)
        => \A i \in 1..Len(simulationResults) :
               LET r == simulationResults[i]
               IN  /\ \A j \in 1..Len(r.meshes) :
                          /\ r.meshes[j].g = genCount
                          /\ r.meshes[j].t = r.type
                          /\ r.meshes[j].n \notin RootNames
                   /\ \A j, k \in 1..Len(r.meshes) :
                          j < k => r.meshes[j].f < r.meshes[k].f
                   /\ Range(FilesOf(r)) = UsableFiles(r.type)

\* The sequences of variants, by type.
VariantsOf(reg) == [i \in 1..Len(reg) |-> <<reg[i].type, reg[i].meshes>>]

\* No intent changes a variants list.
C20_Fixed ==
    lastOp'.op \in {"cycleVariant", "switchType", "cycleType", "clear"}
        => VariantsOf(simulationResults') = VariantsOf(simulationResults)

\* C20: the variants of a registered type are the files listed for it, in
\* listing order, without the files that gave no usable mesh, one variant
\* per usable file, and the list stays as it is until the next clear.
C20_VariantsInListingOrder == []C20_Variants /\ [][C20_Fixed]_vars

\* Of three listed files the second gave no usable mesh, and the variants
\* have been cycled since.
C20_Witness ==
    /\ lastOp.op = "cycleVariant"
    /\ lastOp.hit
    /\ FilesOf(CurrentResult) = <<1, 3>>

\* C21: every result of the registry has at least one variant and a
\* currentIndex from 0 to the number of its variants less one.
C21_IndexInRange ==
    \A i \in 1..Len(simulationResults) :
        /\ Len(simulationResults[i].meshes) >= 1
        /\ simulationResults[i].currentIndex \in
               0..(Len(simulationResults[i].meshes) - 1)

\* cycleVariant has moved a type of three variants to its last variant.
C21_Witness ==
    /\ lastOp.op = "cycleVariant"
    /\ lastOp.hit
    /\ CurrentRegistered
    /\ Len(CurrentResult.meshes) = 3
    /\ CurrentResult.currentIndex = 2

\* A second clearPreviousModels right after a first disposes nothing and
\* leaves the scene as the first left it; on an empty controller the first
\* already changes nothing.
C22_Twice ==
    LET once == clearPreviousModels(sceneMeshes, simulationResults)
    IN  /\ Disposals(once, simulationResults) = {}
        /\ clearPreviousModels(once, simulationResults) = once
        /\ (sceneMeshes = {} /\ simulationResults = <<>>)
               => /\ Disposals(sceneMeshes, simulationResults) = {}
                  /\ once = sceneMeshes

\* A reload, which clears in the cleanup and again at the head of the fetch,
\* leaves the scene as one clear does.
C22_Reload ==
    lastOp'.op = "modelChange"
        => sceneMeshes' = clearPreviousModels(sceneMeshes, simulationResults)

\* C22: clear is idempotent: two calls in a row leave what one call leaves,
\* no mesh is disposed twice, and clear on an empty controller changes
\* nothing.
C22_ClearIdempotent == []C22_Twice /\ [][C22_Reload]_vars

\* A reload has cleared, twice, a registry whose meshes were in the scene.
C22_Witness ==
    /\ lastOp.op = "modelChange"
    /\ lastOp.hit
    /\ genCount >= 2

\* Every control of a tree, at any depth.
RECURSIVE ControlsIn(_)
ControlsIn(children) ==
    UNION {{children[i]} \cup ControlsIn(children[i].children) :
               i \in 1..Len(children)}

\* C23: findControlByName(menu, name) returns a control of the menu's tree
\* named name if and only if the tree holds one, at any depth, and null
\* when it holds none or the menu is null.
C23_FindControlByName ==
    probe.fn = "findControlByName"
        => LET all == IF probe.menu.ref
                      THEN ControlsIn(probe.menu.children) ELSE {}
           IN  /\ probe.result.found
                      <=> \E c \in all : c.name = probe.controlName
               /\ probe.result.found
                      => /\ probe.result.control \in all
                         /\ probe.result.control.name = probe.controlName

\* The control was found three levels deep in the second branch, after a
\* first branch that does not hold it.
C23_Witness ==
    /\ probe.fn = "findControlByName"
    /\ probe.result.found
    /\ Len(probe.menu.children) = 2
    /\ Len(probe.menu.children[1].children) > 0
    /\ \A c \in ControlsIn(<<probe.menu.children[1]>>) :
           c.name # probe.controlName
    /\ probe.menu.children[2].name # probe.controlName
    /\ \A i \in 1..Len(probe.menu.children[2].children) :
           probe.menu.children[2].children[i].name # probe.controlName

\* Whether a menu has a type container.
HasSimContainer(menu) ==
    menu.ref /\ \E control \in ControlsIn(menu.children) :
                    control.name = SimContainerName

\* The type container of a menu that has one.
SimContainerOf(menu) ==
    CHOOSE control \in ControlsIn(menu.children) :
        control.name = SimContainerName

\* The children of a type container are the header and the buttons of the
\* types, the one of currentType highlighted.
IsButtonList(children, m, types, currentType) ==
    /\ Len(children) = 1 + Len(types)
    /\ children[1].kind = "text"
    /\ \A k \in 1..Len(types) :
           /\ children[k + 1].kind = "button"
           /\ children[k + 1].name = ButtonName(types[k], m)
           /\ children[k + 1].typeName = types[k]
           /\ children[k + 1].background =
                  (IF types[k] = currentType
                   THEN SELECTED_COLOR ELSE DEFAULT_COLOR)

\* C24: createSimulationTypeButtons with a non-empty list leaves, in every
\* menu that has a simulationTypesContainer, exactly one header followed by
\* one button per type in the order of the list, the button of the current
\* type and no other highlighted, whatever the container held before; a
\* second call with the same arguments changes nothing more; with an empty
\* or a missing list, and in a menu without the container, nothing is
\* created.
C24_CreateButtons ==
    probe.fn = "createSimulationTypeButtons" =>
        LET types == probe.simulationTypes.items
        IN  IF ~probe.simulationTypes.present \/ types = <<>>
            THEN probe.result = probe.uis
            ELSE /\ \A m \in MenuNames :
                        IF HasSimContainer(probe.uis[m])
                        THEN /\ HasSimContainer(probe.result[m])
                             /\ IsButtonList(
                                    SimContainerOf(probe.result[m]).children,
                                    m, types, probe.currentType)
                        ELSE probe.result[m] = probe.uis[m]
                 /\ createSimulationTypeButtons(
                        probe.result, probe.simulationTypes,
                        probe.currentType) = probe.result

\* A call with two types, the second the current one, on a fullscreen menu
\* that holds the buttons of an earlier model and a spatial menu not parsed.
C24_Witness ==
    /\ probe.fn = "createSimulationTypeButtons"
    /\ probe.simulationTypes = List(<<"default", "simulation_type1">>)
    /\ probe.currentType = "simulation_type1"
    /\ HasSimContainer(probe.uis["fullscreen"])
    /\ Len(SimContainerOf(probe.uis["fullscreen"]).children) = 2
    /\ ~HasSimContainer(probe.uis["spacial"])
    /\ Len(SimContainerOf(probe.result["fullscreen"]).children) = 3

\* The type buttons of a menu: the buttons of its type container.
TypeButtonsOf(menu) ==
    IF HasSimContainer(menu)
    THEN {control \in Range(SimContainerOf(menu).children) : IsButton(control)}
    ELSE {}

\* C25: after updateSimulationTypeButtonHighlight(fullscreenUI, spacialUI, t)
\* a type button of either menu is highlighted exactly when its type name is
\* t, for every type name, one with an underscore included.
C25_HighlightFollowsType ==
    probe.fn = "updateSimulationTypeButtonHighlight" =>
        \A m \in MenuNames : \A button \in TypeButtonsOf(probe.result[m]) :
            button.background =
                (IF button.typeName = probe.currentType
                 THEN SELECTED_COLOR ELSE DEFAULT_COLOR)

\* The variants that are visible: the enabled meshes among the variants of
\* the registry and those a load has fetched for the type at hand.
VisibleVariants ==
    (RegistryMeshes(simulationResults)
        \cup UNION {Range(load[g].simulationMeshes) : g \in 1..MaxLoads})
        \cap enabled

\* C26: with one load in flight at a time and cycleVariant and switchType
\* handled between its steps, at most one variant is visible in every state,
\* and in the state in which the load resolves, if the current type is
\* registered, exactly variants[currentIndex] of it is visible.
C26_IntentsDuringLoad ==
    /\ Cardinality(VisibleVariants) <= 1
    /\ (LoadResolved /\ CurrentRegistered)
           => VisibleVariants
                  = {MeshAt(CurrentResult, CurrentResult.currentIndex)}

\* The types whose buttons are highlighted in a menu.
HighlightedTypes(menu) ==
    {button.typeName : button \in
         {b \in TypeButtonsOf(menu) : b.background = SELECTED_COLOR}}

\* C27: once the type buttons exist, in every state reached by a press of a
\* type button of either menu or of the T key, the highlighted button of the
\* flat menu and that of the spatial menu name the current type.
C27_HighlightNamesCurrent ==
    lastOp.op \in {"pressTypeButton", "cycleType"} =>
        \A m \in MenuNames :
            TypeButtonsOf(menus[m]) # {}
                => HighlightedTypes(menus[m]) = {currentSimulationType}

\* The types of the type buttons of a menu, in the order of the buttons.
ButtonTypesOf(menu) ==
    LET buttons == SelectSeq(SimContainerOf(menu).children, IsButton)
    IN  [k \in 1..Len(buttons) |-> buttons[k].typeName]

\* C28: in the state in which a load has resolved and its buttons step has
\* run, the type buttons of every menu that has a type container are those of
\* the types found for the model loaded last, and no others: a model without
\* types leaves no button of the model before it.
C28_ButtonsOfLastModel ==
    LoadResolved =>
        \A m \in MenuNames :
            HasSimContainer(menus[m])
                => ButtonTypesOf(menus[m]) = availableSimulationTypes

\* The menus are created and the parse of each has resolved or rejected.
MenusCompleted == \A m \in MenuNames : menus[m].parse \in {"parsed", "failed"}

\* C29: whatever the order in which the creation and parsing of the menus and
\* the load of the first model complete, once all have completed every parsed
\* menu holds one type button per type found for the model.
C29_ButtonsWhateverOrder ==
    (MenusCompleted /\ genCount = 1 /\ Idle) =>
        \A m \in MenuNames :
            menus[m].parse = "parsed"
                => ButtonTypesOf(menus[m]) = availableSimulationTypes

\* The entries of a listing whose name has no '.', in the listing's order.
HasNoDot(item) == \A i \in 1..Len(item.name) : item.name[i] # "."
WithoutDots(data) == SelectSeq(data, HasNoDot)

\* A listing function fulfils with exactly one of data and error, data when
\* the storage call succeeded, and listModels and listSimulationTypes give
\* the entries without a '.' in their name.
C30_Settled ==
    probe.fn \in {"listFiles", "listModels", "listSimulationTypes"} =>
        /\ probe.result.state = "fulfilled"
        /\ (probe.result.data = "null") # (probe.result.error = "null")
        /\ (probe.result.data # "null") = (probe.response.kind = "ok")
        /\ probe.response.kind = "ok" =>
               probe.result.items =
                   (IF probe.fn = "listFiles"
                    THEN probe.response.data
                    ELSE WithoutDots(probe.response.data))

\* A load whose listFiles call failed goes on with the next type, or ends
\* as completed after the last one, and stores nothing for the type.
C30_Skip ==
    \A g \in 1..MaxLoads :
        (load[g].pc = "listFiles" /\ load'[g] # load[g]
             /\ probe.fn = "listFiles" /\ probe.result.data = "null")
            => /\ simulationResults' = simulationResults
               /\ IF load[g].ti < Len(load[g].types)
                  THEN /\ load'[g].pc = "listFiles"
                       /\ load'[g].ti = load[g].ti + 1
                       /\ lastOp'.arg = "loading"
                  ELSE /\ load'[g].pc = "done"
                       /\ lastOp'.arg = "completed"

====
